---- MODULE Spec2Model ----
(***************************************************************************)
(* Model of the LLM benchmarking toolkit: the comparator                   *)
(* (scripts/compare_outputs.py), the two collectors                        *)
(* (scripts/run_prompts_openai.py, scripts/run_prompts_local.py) and the   *)
(* helpers they share (scripts/utils.py).                                  *)
(*                                                                         *)
(* Units.  JSON floats are modelled exactly, as integers in a fixed unit   *)
(* or as reduced fractions <<num, den>>:                                   *)
(*   latency_seconds   milliseconds   (format_response_data rounds to 3)   *)
(*   cost_usd          micro-dollars  (format_response_data rounds to 6)   *)
(*   ratios, means     fractions <<num, den>> in lowest terms, den > 0     *)
(* Python dicts are TLA+ functions from field names to values, so that an  *)
(* absent key is a field outside DOMAIN.                                   *)
(***************************************************************************)
EXTENDS Integers, Sequences, FiniteSets, TLC

VARIABLES
    \* ---- comparator (compare_outputs.py)
    openai_file,      \* content of the --openai-results file
    local_file,       \* content of the --local-results file
    openai_results,   \* main's openai_results after load_results
    local_results,    \* main's local_results after load_results
    comparisons,      \* main's comparisons
    analysis,         \* main's analysis
    outputs,          \* files written by the comparator run, in write order
    cmp_pc,           \* position of compare_outputs.main
    \* ---- collectors (run_prompts_openai.py, run_prompts_local.py)
    pipeline,         \* which collector runs: "openai" or "local"
    api_key,          \* args.api_key (hosted collector)
    server_up,        \* what test_connection returns (local collector)
    categories,       \* args.categories
    col_pc,           \* position of the collector's main
    cat_idx,          \* position of main's loop in args.categories
    prompts,          \* the prompts run_prompt_category was called with
    prompt_idx,       \* position of run_prompt_category's loop in prompts
    results,          \* run_prompt_category's results
    all_results,      \* main's all_results
    sent,             \* the client invocations so far, in order, with
                      \* the endpoint's reply to each
    api_results,      \* the outcomes send_prompt returned so far, in order
    error_log,        \* the lines appended to error.log so far
    files_read,       \* the prompt files read so far
    result_writes,    \* the writes of the result file so far
    clock,            \* number of clock readings so far
    exit_status,      \* the process's exit status, -1 while it runs
    exception,        \* the uncaught exception, "" when there is none
    \* ---- a call of calculate_tokens_cost (utils.py)
    cost_args,        \* the arguments of the call
    cost_ret          \* what the call returned

cmp_vars == <<openai_file, local_file, openai_results, local_results,
              comparisons, analysis, outputs, cmp_pc>>

col_vars == <<pipeline, api_key, server_up, categories, col_pc, cat_idx,
              prompts, prompt_idx, results, all_results, sent, api_results,
              error_log, files_read, result_writes, clock, exit_status,
              exception>>

cost_vars == <<cost_args, cost_ret>>

vars == <<cmp_vars, col_vars, cost_vars>>

-----------------------------------------------------------------------------
(* Bounds *)

\* longest result sequence held by a results file
MaxLen == 3

\* longest list of categories given to a collector
MaxCats == 2

-----------------------------------------------------------------------------
(* Generic helpers: Python built-ins *)

\* dict.get(key, default)
Get(d, key, default) == IF key \in DOMAIN d THEN d[key] ELSE default

Max(a, b) == IF a >= b THEN a ELSE b

Min(a, b) == IF a <= b THEN a ELSE b

Abs(a) == IF a < 0 THEN -a ELSE a

Range(s) == {s[i] : i \in DOMAIN s}

RECURSIVE Gcd(_, _)
Gcd(a, b) == IF b = 0 THEN a ELSE Gcd(b, a % b)

\* the fraction n/d (d > 0, n >= 0) in lowest terms: Python's float division
Frac(n, d) == LET g == Gcd(n, d) IN <<n \div g, d \div g>>

FracAdd(p, q) == Frac(p[1] * q[2] + q[1] * p[2], p[2] * q[2])

FracDivInt(p, k) == Frac(p[1], p[2] * k)

FracLess(p, q) == p[1] * q[2] < q[1] * p[2]

\* |1 - p|
FracAbsOneMinus(p) == Frac(Abs(p[2] - p[1]), p[2])

\* round(n/d * scale) to the nearest integer, ties to even: Python's round()
\* and its fixed-point formatting (':.1f') both round half to even
RoundHalfEven(n, d, scale) ==
    LET m == n * scale
        q == m \div d
        r == m % d
    IN  IF 2 * r < d THEN q
        ELSE IF 2 * r > d THEN q + 1
        ELSE IF q % 2 = 0 THEN q ELSE q + 1

RECURSIVE SumInts(_)
SumInts(s) == IF s = <<>> THEN 0 ELSE Head(s) + SumInts(Tail(s))

RECURSIVE SumFracs(_)
SumFracs(s) == IF s = <<>> THEN <<0, 1>> ELSE FracAdd(Head(s), SumFracs(Tail(s)))

\* [f(x) for x in s]
RECURSIVE MapSeq(_, _)
MapSeq(f(_), s) == IF s = <<>> THEN <<>> ELSE <<f(Head(s))>> \o MapSeq(f, Tail(s))

\* all sequences over S of length at most n
SeqsUpTo(S, n) == UNION {[1..k -> S] : k \in 0..n}

\* the orders in which iterating a set may yield its elements
Orders(S) == {s \in [1..Cardinality(S) -> S] : Range(s) = S}

-----------------------------------------------------------------------------
(* Strings: Python compares str values by code point, left to right *)

\* the characters used in identifiers, in ascending code point order
Alphabet == "0123456789_abcdefghijklmnopqrstuvwxyz"

CodePoint(c) == CHOOSE i \in 1..Len(Alphabet) : SubSeq(Alphabet, i, i) = c

RECURSIVE StrLess(_, _)
StrLess(a, b) ==
    IF b = "" THEN FALSE
    ELSE IF a = "" THEN TRUE
    ELSE LET ca == CodePoint(SubSeq(a, 1, 1))
             cb == CodePoint(SubSeq(b, 1, 1))
         IN  IF ca # cb THEN ca < cb
             ELSE StrLess(SubSeq(a, 2, Len(a)), SubSeq(b, 2, Len(b)))

\* sorted(S) of a set of strings, reached from any iteration order of the set
sorted(order) == SortSeq(order, StrLess)

-----------------------------------------------------------------------------
(* utils.py *)

\* a JSON value that is a string or null (Python: a str or None)
JNull == [type |-> "null"]

JStr(text) == [type |-> "string", value |-> text]

\* the outcome of a call that raises: the exception in place of the value
\* (a record; a call that returns a list returns it as [value |-> list])
Raise(exc) == [raise |-> exc]

Raised(v) == "raise" \in DOMAIN v

\* d[key] = value
With(d, key, value) ==
    [k \in DOMAIN d \cup {key} |-> IF k = key THEN value ELSE d[k]]

Whitespace == {" ", "\t", "\n", "\r"}

\* len(text.split()): the number of maximal runs of non-whitespace
RECURSIVE WordsFrom(_, _, _)
WordsFrom(text, k, inWord) ==
    IF k > Len(text) THEN 0
    ELSE LET ws == SubSeq(text, k, k) \in Whitespace
         IN  (IF ~ws /\ ~inWord THEN 1 ELSE 0) + WordsFrom(text, k + 1, ~ws)

words_count(text) == WordsFrom(text, 1, FALSE)

\* datetime.now().isoformat() at the clock's n-th reading
isoformat(n) ==
    "2024-01-01T00:00:" \o (IF n < 10 THEN "0" ELSE "") \o ToString(n)

\* the price table of calculate_tokens_cost, in micro-dollars per token
\* (dollars per 1K tokens: 0.03/0.06, 0.01/0.03, 0.005/0.015)
pricing ==
    [m \in {"gpt-4", "gpt-4-turbo", "gpt-4o"} |->
        IF m = "gpt-4" THEN [input |-> 30, output |-> 60]
        ELSE IF m = "gpt-4-turbo" THEN [input |-> 10, output |-> 30]
        ELSE [input |-> 5, output |-> 15]]

\* a slip of lines 27-28: a model that has no price is charged nothing
calculate_tokens_cost_unpriced_free(input_tokens, output_tokens, model) ==
    IF model \notin DOMAIN pricing THEN 0
    ELSE input_tokens * pricing[model].input + output_tokens * pricing[model].output

\* calculate_tokens_cost, in micro-dollars
calculate_tokens_cost(input_tokens, output_tokens, model) ==
    LET m == IF model \notin DOMAIN pricing THEN "gpt-4" ELSE model
    IN  input_tokens * pricing[m].input + output_tokens * pricing[m].output

\* a slip of line 56: total_tokens counts the output tokens only
format_response_data_output_only(prompt_id, response, latency, input_tokens, output_tokens, cost, model, now) ==
    IF response.type # "string"
    THEN Raise("TypeError: object of type 'NoneType' has no len()")
    ELSE [prompt_id       |-> prompt_id,
          model           |-> model,
          response        |-> response.value,
          latency_seconds |-> RoundHalfEven(latency, 1000, 1),
          input_tokens    |-> input_tokens,
          output_tokens   |-> output_tokens,
          total_tokens    |-> output_tokens,
          cost_usd        |-> cost,
          timestamp       |-> isoformat(now),
          response_length |-> Len(response.value),
          words_count     |-> words_count(response.value)]

\* format_response_data.  latency is in microseconds and is rounded to
\* milliseconds (round(latency, 3)); cost is in micro-dollars (round(cost, 6));
\* `now` is the clock reading.  len(response) raises for None.
format_response_data(prompt_id, response, latency, input_tokens, output_tokens, cost, model, now) ==
    IF response.type # "string"
    THEN Raise("TypeError: object of type 'NoneType' has no len()")
    ELSE [prompt_id       |-> prompt_id,
          model           |-> model,
          response        |-> response.value,
          latency_seconds |-> RoundHalfEven(latency, 1000, 1),
          input_tokens    |-> input_tokens,
          output_tokens   |-> output_tokens,
          total_tokens    |-> input_tokens + output_tokens,
          cost_usd        |-> cost,
          timestamp       |-> isoformat(now),
          response_length |-> Len(response.value),
          words_count     |-> words_count(response.value)]

\* log_error: the line appended to error.log, as its parts; the
\* "(Prompt: <id>)" part is written only for a non-empty prompt_id
log_error(error_msg, prompt_id, now) ==
    IF prompt_id # ""
    THEN [timestamp |-> isoformat(now), prompt |-> prompt_id, message |-> error_msg]
    ELSE [timestamp |-> isoformat(now), message |-> error_msg]

-----------------------------------------------------------------------------
(* Result records held by the two results files (the comparator's inputs).  *)
(* A record is what a collector writes (format_response_data plus category *)
(* and, on failure, error) or a record of another producer that holds only *)
(* the fields the comparator indexes directly.                             *)

\* the prompt ids of the sample files; "p10" sorts before "p2" as a string
PromptIds == {"p1", "p10", "p2"}

SampleCategory(id) == IF id = "p2" THEN "creative" ELSE "coding"

\* a collector's record of a successful request (latency in microseconds)
OkRecord(id, model, response, latency, inTok, outTok, cost) ==
    With(format_response_data(id, JStr(response), latency, inTok, outTok,
                              cost, model, 0),
         "category", SampleCategory(id))

\* a collector's record of a failed request (latency in microseconds)
ErrRecord(id, model, latency) ==
    With(With(format_response_data(id, JStr("ERROR: timeout"), latency, 0, 0,
                                   0, model, 9),
              "category", SampleCategory(id)),
         "error", TRUE)

\* another producer's record: the directly indexed fields and error: false
BareRecord(id, model, latency) ==
    [prompt_id |-> id, model |-> model, response |-> "",
     latency_seconds |-> latency, response_length |-> 0, error |-> FALSE]

HostedRecords ==
    { OkRecord("p1", "gpt-4", "abcd", 2000000, 1000, 333, 49980),
      ErrRecord("p1", "gpt-4", 60000000),
      OkRecord("p10", "gpt-4", "abc def", 1000400, 10, 5, 600),
      BareRecord("p2", "gpt-4o", 0) }

LocalRecords ==
    { OkRecord("p1", "gpt-oss-20b", "ab", 4000000, 0, 0, 0),
      ErrRecord("p1", "gpt-oss-20b", 120000000),
      OkRecord("p10", "gpt-oss-20b", "abc", 499600, 3, 4, 0),
      OkRecord("p2", "gpt-oss-20b", "abcde", 3000000, 0, 0, 7) }

\* what a results file may hold: no file, text that is no JSON, or a JSON list
Missing == [file |-> "missing"]

InvalidJson == [file |-> "invalid json"]

FileOf(rs) == [file |-> "json", data |-> rs]

-----------------------------------------------------------------------------
(* compare_outputs.py *)

\* load_results: the list the file holds, [] when it is missing or invalid
load_results(f) == IF f.file = "json" THEN f.data ELSE <<>>

\* a slip of lines 29-30: a record is stored only under a prompt_id that is
\* not yet a key, so that the first record of a prompt_id is kept
lookup_first_wins(rs) ==
    [k \in {rs[i].prompt_id : i \in DOMAIN rs} |->
        rs[CHOOSE i \in DOMAIN rs :
               /\ rs[i].prompt_id = k
               /\ \A j \in DOMAIN rs : rs[j].prompt_id = k => i <= j]]

\* {result['prompt_id']: result for result in results}: a later record of
\* the same prompt_id replaces an earlier one
RECURSIVE lookup(_)
lookup(rs) ==
    IF rs = <<>> THEN <<>>
    ELSE LET n    == Len(rs)
             rest == lookup(SubSeq(rs, 1, n - 1))
             r    == rs[n]
         IN  [k \in DOMAIN rest \cup {r.prompt_id} |->
                 IF k = r.prompt_id THEN r ELSE rest[k]]

\* set(openai_lookup.keys()) & set(local_lookup.keys())
common_prompts(openai_lookup, local_lookup) ==
    DOMAIN openai_lookup \cap DOMAIN local_lookup

\* local latency / max(openai latency, 0.001)
latency_ratio(openai_result, local_result) ==
    Frac(local_result.latency_seconds, Max(openai_result.latency_seconds, 1))

\* local response_length / max(openai response_length, 1)
length_ratio(openai_result, local_result) ==
    Frac(local_result.response_length, Max(openai_result.response_length, 1))

\* a slip of line 71: the key of send_prompt's outcome ('cost') in place of
\* the key of the result record ('cost_usd')
cost_savings_outcome_key(openai_result) == Get(openai_result, "cost", 0)

\* openai_result.get('cost_usd', 0)
cost_savings(openai_result) == Get(openai_result, "cost_usd", 0)

\* a slip of line 72: 'and' in place of 'or'
both_successful_and(openai_result, local_result) ==
    ~(Get(openai_result, "error", FALSE) /\ Get(local_result, "error", FALSE))

\* not (openai_result.get('error', False) or local_result.get('error', False))
both_successful(openai_result, local_result) ==
    ~(Get(openai_result, "error", FALSE) \/ Get(local_result, "error", FALSE))

\* the comparison dict built for one prompt_id
comparison(prompt_id, openai_result, local_result) ==
    [prompt_id |-> prompt_id,
     category  |-> Get(openai_result, "category", "unknown"),
     openai |->
        [model           |-> openai_result.model,
         response        |-> openai_result.response,
         latency_seconds |-> openai_result.latency_seconds,
         total_tokens    |-> Get(openai_result, "total_tokens", 0),
         cost_usd        |-> Get(openai_result, "cost_usd", 0),
         response_length |-> openai_result.response_length,
         words_count     |-> Get(openai_result, "words_count", 0),
         has_error       |-> Get(openai_result, "error", FALSE)],
     local |->
        [model           |-> local_result.model,
         response        |-> local_result.response,
         latency_seconds |-> local_result.latency_seconds,
         total_tokens    |-> Get(local_result, "total_tokens", 0),
         cost_usd        |-> 0,
         response_length |-> local_result.response_length,
         words_count     |-> Get(local_result, "words_count", 0),
         has_error       |-> Get(local_result, "error", FALSE)],
     comparison_metrics |->
        [latency_ratio   |-> latency_ratio(openai_result, local_result),
         length_ratio    |-> length_ratio(openai_result, local_result),
         cost_savings    |-> cost_savings(openai_result),
         both_successful |-> both_successful(openai_result, local_result)]]

\* a slip of line 41: one pass per hosted record that has a local partner,
\* in place of one pass per common prompt id
visited_per_record(openai, local, order) ==
    LET partners == {local[i].prompt_id : i \in DOMAIN local}
        hit(r)   == r.prompt_id \in partners
        id(r)    == r.prompt_id
    IN  MapSeq(id, SelectSeq(openai, hit))

\* a slip of line 41: the set is iterated as it is, without sorted()
visited_unsorted(openai, local, order) == order

\* the prompt ids the loop of create_side_by_side_comparison visits, in
\* order, when iterating the set common_prompts yields them as `order`
visited(openai, local, order) == sorted(order)

\* a slip of line 47: setdefault in place of get, which writes the default
\* category into the hosted record it is missing from
create_side_by_side_comparison_setdefault(openai, local, order) ==
    LET openai_lookup == lookup(openai)
        local_lookup  == lookup(local)
        ids           == visited(openai, local, order)
        joined(i)     == /\ openai[i].prompt_id \in DOMAIN local_lookup
                         /\ openai_lookup[openai[i].prompt_id] = openai[i]
    IN  [ret |-> IF common_prompts(openai_lookup, local_lookup) = {}
                 THEN <<>>
                 ELSE [i \in 1..Len(ids) |->
                         comparison(ids[i], openai_lookup[ids[i]],
                                    local_lookup[ids[i]])],
         openai_results |->
             [i \in DOMAIN openai |->
                 IF joined(i) /\ "category" \notin DOMAIN openai[i]
                 THEN [k \in DOMAIN openai[i] \cup {"category"} |->
                         IF k = "category" THEN "unknown" ELSE openai[i][k]]
                 ELSE openai[i]],
         local_results  |-> local]

\* create_side_by_side_comparison.  `order` is the order in which iterating
\* the set common_prompts yields its elements (it varies with the hash seed).
\* The two lists are passed by reference: the result holds the returned list
\* and the two arguments as the call leaves them.
create_side_by_side_comparison(openai, local, order) ==
    LET openai_lookup == lookup(openai)
        local_lookup  == lookup(local)
        ids           == visited(openai, local, order)
    IN  [ret |-> IF common_prompts(openai_lookup, local_lookup) = {}
                 THEN <<>>
                 ELSE [i \in 1..Len(ids) |->
                         comparison(ids[i], openai_lookup[ids[i]],
                                    local_lookup[ids[i]])],
         openai_results |-> openai,
         local_results  |-> local]

IsSuccessful(c) == c.comparison_metrics.both_successful

LatencyRatioOf(c) == c.comparison_metrics.latency_ratio

LengthRatioOf(c) == c.comparison_metrics.length_ratio

CostSavingsOf(c) == c.comparison_metrics.cost_savings

OpenaiCostOf(c) == c.openai.cost_usd

\* f"{p:.<digits>f}": fixed-point text of the fraction p
FormatFixed(p, digits) ==
    LET scale == IF digits = 1 THEN 10 ELSE 10000
        n     == RoundHalfEven(p[1], p[2], scale)
        frac  == ToString(scale + (n % scale))
    IN  ToString(n \div scale) \o "." \o SubSeq(frac, 2, Len(frac))

\* a slip of line 134: the rate rounded before it is scaled to a percentage
success_rate_round_first(successful_count, total_count) ==
    RoundHalfEven(successful_count, total_count, 10) * 100

\* successful_rate * 100 rounded to one decimal, in tenths of a percent
success_rate(successful_count, total_count) ==
    RoundHalfEven(successful_count, total_count, 1000)

\* a slip of line 120: '=' in place of '+=', which keeps the cost savings of
\* the category's last comparison only
category_analysis_last_cost(successful_comparisons) ==
    [cat \in {c.category : c \in Range(successful_comparisons)} |->
        LET members == SelectSeq(successful_comparisons,
                                 LAMBDA c : c.category = cat)
            count   == Len(members)
        IN  [count |-> count,
             avg_latency_ratio |->
                 FracDivInt(SumFracs(MapSeq(LatencyRatioOf, members)), count),
             avg_length_ratio |->
                 FracDivInt(SumFracs(MapSeq(LengthRatioOf, members)), count),
             total_cost_savings |-> CostSavingsOf(members[count])]]

\* the per-category accumulation and averaging over the successful subset
category_analysis(successful_comparisons) ==
    [cat \in {c.category : c \in Range(successful_comparisons)} |->
        LET members == SelectSeq(successful_comparisons,
                                 LAMBDA c : c.category = cat)
            count   == Len(members)
        IN  [count |-> count,
             avg_latency_ratio |->
                 FracDivInt(SumFracs(MapSeq(LatencyRatioOf, members)), count),
             avg_length_ratio |->
                 FracDivInt(SumFracs(MapSeq(LengthRatioOf, members)), count),
             total_cost_savings |-> SumInts(MapSeq(CostSavingsOf, members))]]

\* generate_performance_analysis.  Units of the overview: success_rate in
\* tenths of a percent, the two ratios in hundredths, total_cost_savings in
\* 1e-4 dollars (the one, two and four decimals the code rounds to).
generate_performance_analysis(comps) ==
    LET successful_comparisons == SelectSeq(comps, IsSuccessful)
        total_comparisons == Len(comps)
        n == Len(successful_comparisons)
        avg_latency_ratio ==
            FracDivInt(SumFracs(MapSeq(LatencyRatioOf, successful_comparisons)), n)
        avg_length_ratio ==
            FracDivInt(SumFracs(MapSeq(LengthRatioOf, successful_comparisons)), n)
        total_openai_cost == SumInts(MapSeq(OpenaiCostOf, successful_comparisons))
    IN  IF comps = <<>> THEN [error |-> "No comparisons available"]
        ELSE IF successful_comparisons = <<>>
        THEN [error |-> "No successful comparisons available"]
        ELSE
        [overview |->
            [total_comparisons      |-> total_comparisons,
             successful_comparisons |-> n,
             success_rate           |-> success_rate(n, total_comparisons),
             avg_latency_ratio      |->
                 RoundHalfEven(avg_latency_ratio[1], avg_latency_ratio[2], 100),
             avg_response_length_ratio |->
                 RoundHalfEven(avg_length_ratio[1], avg_length_ratio[2], 100),
             total_cost_savings     |-> RoundHalfEven(total_openai_cost, 100, 1)],
         performance_summary |->
            [local_vs_openai_speed |->
                 (IF FracLess(avg_latency_ratio, <<1, 1>>) THEN "Faster" ELSE "Slower")
                 \o " by " \o FormatFixed(FracAbsOneMinus(avg_latency_ratio), 1) \o "x",
             local_vs_openai_length |->
                 (IF FracLess(avg_length_ratio, <<1, 1>>) THEN "Shorter" ELSE "Longer")
                 \o " by " \o FormatFixed(FracAbsOneMinus(avg_length_ratio), 1) \o "x",
             cost_efficiency |->
                 "$" \o FormatFixed(<<total_openai_cost, 1000000>>, 4)
                 \o " saved with local inference"],
         category_breakdown |-> category_analysis(successful_comparisons)]

\* one row of the CSV export
csv_row(comp) ==
    [prompt_id              |-> comp.prompt_id,
     category               |-> comp.category,
     openai_model           |-> comp.openai.model,
     local_model            |-> comp.local.model,
     openai_latency         |-> comp.openai.latency_seconds,
     local_latency          |-> comp.local.latency_seconds,
     openai_tokens          |-> comp.openai.total_tokens,
     local_tokens           |-> comp.local.total_tokens,
     openai_cost            |-> comp.openai.cost_usd,
     openai_response_length |-> comp.openai.response_length,
     local_response_length  |-> comp.local.response_length,
     openai_words           |-> comp.openai.words_count,
     local_words            |-> comp.local.words_count,
     latency_ratio          |-> comp.comparison_metrics.latency_ratio,
     length_ratio           |-> comp.comparison_metrics.length_ratio,
     cost_savings           |-> comp.comparison_metrics.cost_savings,
     both_successful        |-> comp.comparison_metrics.both_successful,
     openai_has_error       |-> comp.openai.has_error,
     local_has_error        |-> comp.local.has_error]

\* generate_csv_export: the files it writes (none for an empty list); the
\* file holds a header line and one line per row of the data frame
generate_csv_export(comps, output_file) ==
    IF comps = <<>> THEN <<>>
    ELSE << [name |-> output_file, content |-> MapSeq(csv_row, comps)] >>

-----------------------------------------------------------------------------
(* The endpoint: what one POST to the chat-completion URL may come to.     *)
(* elapsed is the time from start_time to the end of the call, in          *)
(* microseconds.                                                           *)

OkBody ==
    [choices |-> << [message |-> [content |-> JStr("hello world")]] >>,
     usage   |-> [prompt_tokens |-> 10, completion_tokens |-> 20]]

OkBodyNoUsage == [choices |-> << [message |-> [content |-> JStr("hi")]] >>]

NullContentBody ==
    [choices |-> << [message |-> [content |-> JNull]] >>,
     usage   |-> [prompt_tokens |-> 10, completion_tokens |-> 0]]

EmptyChoicesBody == [choices |-> <<>>]

EmptyBody == <<>>

Replies ==
    { [kind |-> "exception", message |-> "Read timed out.", elapsed |-> 60000499],
      [kind |-> "http", status |-> 500, text |-> "overloaded", elapsed |-> 120500],
      [kind |-> "http", status |-> 200, text |-> "<html>", elapsed |-> 90000],
      [kind |-> "http", status |-> 200, json |-> EmptyBody, elapsed |-> 80000],
      [kind |-> "http", status |-> 200, json |-> EmptyChoicesBody, elapsed |-> 70000],
      [kind |-> "http", status |-> 200, json |-> NullContentBody, elapsed |-> 1500000],
      [kind |-> "http", status |-> 200, json |-> OkBodyNoUsage, elapsed |-> 800000],
      [kind |-> "http", status |-> 200, json |-> OkBody, elapsed |-> 1234567] }

\* the failed outcome built by the except clause of send_prompt
failed_outcome(error, latency) ==
    [success |-> FALSE, error |-> error, latency |-> latency,
     input_tokens |-> 0, output_tokens |-> 0, cost |-> 0]

\* data['choices'][0]['message']['content'], or the exception it raises;
\* the local client tests 'choices' and its length first
response_text(client, data) ==
    IF client = "local" /\ ~("choices" \in DOMAIN data /\ Len(data.choices) > 0)
    THEN Raise("No response choices found in API response")
    ELSE IF "choices" \notin DOMAIN data THEN Raise("'choices'")
    ELSE IF Len(data.choices) = 0 THEN Raise("list index out of range")
    ELSE IF "message" \notin DOMAIN data.choices[1] THEN Raise("'message'")
    ELSE IF "content" \notin DOMAIN data.choices[1].message THEN Raise("'content'")
    ELSE data.choices[1].message.content

\* OpenAIClient.send_prompt and LocalLMClient.send_prompt: the outcome
\* returned for a reply of the endpoint
send_prompt(client, model, reply) ==
    LET latency == reply.elapsed
    IN  IF reply.kind = "exception"
        THEN failed_outcome(reply.message, latency)
        ELSE IF reply.status # 200
        THEN failed_outcome("API request failed: " \o ToString(reply.status)
                            \o " - " \o reply.text, latency)
        ELSE IF "json" \notin DOMAIN reply
        THEN failed_outcome("Expecting value: line 1 column 1 (char 0)", latency)
        ELSE
        LET data          == reply.json
            text          == response_text(client, data)
            usage         == Get(data, "usage", <<>>)
            input_tokens  == Get(usage, "prompt_tokens", 0)
            output_tokens == Get(usage, "completion_tokens", 0)
        IN  IF Raised(text) THEN failed_outcome(text.raise, latency)
            ELSE [success |-> TRUE, response |-> text, latency |-> latency,
                  input_tokens |-> input_tokens, output_tokens |-> output_tokens,
                  cost |-> IF client = "openai"
                           THEN calculate_tokens_cost(input_tokens, output_tokens, model)
                           ELSE 0]

-----------------------------------------------------------------------------
(* run_prompt_category of the two collectors: the body of its loop *)

\* the success branch: the result record, or the exception raised
success_result(model, prompt, api_result, category, now) ==
    LET result == format_response_data(prompt.id, api_result.response,
                      api_result.latency, api_result.input_tokens,
                      api_result.output_tokens, api_result.cost, model, now)
    IN  IF Raised(result) THEN result ELSE With(result, "category", category)

\* the failure branch: the message passed to log_error
failure_message(prompt, api_result) ==
    "Failed to process prompt " \o prompt.id \o ": " \o api_result.error

\* a slip of lines 131 / 146: the error flag is not set
failure_result_unflagged(model, prompt, api_result, category, now) ==
    With(format_response_data(prompt.id, JStr("ERROR: " \o api_result.error),
                              api_result.latency, 0, 0, 0, model, now),
         "category", category)

\* the failure branch: the error result record
failure_result(model, prompt, api_result, category, now) ==
    With(With(format_response_data(prompt.id, JStr("ERROR: " \o api_result.error),
                                   api_result.latency, 0, 0, 0, model, now),
              "category", category),
         "error", TRUE)

-----------------------------------------------------------------------------
(* The prompt files under ../data/prompts, one per category *)

Categories == <<"instruction", "reasoning", "creative", "coding">>

\* instruction.json and reasoning.json hold prompts, creative.json does not
\* exist, coding.json exists and holds text that is no JSON
PromptFiles ==
    [c \in Range(Categories) |->
        IF c = "instruction"
        THEN FileOf(<< [id |-> "i1", content |-> "Say hi", category |-> c],
                       [id |-> "i2", content |-> "Say bye", category |-> c] >>)
        ELSE IF c = "reasoning"
        THEN FileOf(<< [id |-> "r1", content |-> "Why?"] >>)
        ELSE IF c = "creative" THEN Missing
        ELSE InvalidJson]

\* os.path.exists(prompt_file)
exists(f) == f.file # "missing"

\* load_prompts: json.load of the file, which raises on text that is no JSON
load_prompts(f) ==
    IF f.file = "json" THEN [value |-> f.data]
    ELSE Raise("json.decoder.JSONDecodeError")

\* --api-key, or OPENAI_API_KEY when the flag is not given: None, an empty
\* string or a key
NoKey == [given |-> FALSE]

Key(text) == [given |-> TRUE, value |-> text]

\* a slip of line 157: a test for the empty string, which None passes
credential_missing_empty_only(key) == key.given /\ key.value = ""

\* `not args.api_key`
credential_missing(key) == ~key.given \/ key.value = ""

\* a slip of lines 186-189: the save is inside the loop and ends the run
\* after the first category
loop_done_after_first(idx, cats) == idx > 1

\* the category loop of main is over: all of args.categories were visited
loop_done(idx, cats) == idx > Len(cats)

ModelName(p) == IF p = "openai" THEN "gpt-4" ELSE "gpt-oss-20b"

OutputFile(p) == IF p = "openai" THEN "openai_outputs.json" ELSE "local_outputs.json"

-----------------------------------------------------------------------------
(* compare_outputs.main, one action per step *)

NotSet == [unset |-> TRUE]

ResultFiles(records) ==
    {Missing, InvalidJson} \cup {FileOf(rs) : rs \in SeqsUpTo(records, MaxLen)}

\* no call of calculate_tokens_cost is under way
IdleCost ==
    /\ cost_args = NotSet
    /\ cost_ret = NotSet

\* no collector runs beside the comparator
IdleCollector ==
    /\ pipeline = "none"
    /\ api_key = [given |-> FALSE]
    /\ server_up = FALSE
    /\ categories = <<>>
    /\ col_pc = "idle"
    /\ cat_idx = 0
    /\ prompts = <<>>
    /\ prompt_idx = 0
    /\ results = <<>>
    /\ all_results = <<>>
    /\ sent = <<>>
    /\ api_results = <<>>
    /\ error_log = <<>>
    /\ files_read = <<>>
    /\ result_writes = <<>>
    /\ clock = 0
    /\ exit_status = -1
    /\ exception = ""

InitComparator ==
    /\ IdleCollector
    /\ IdleCost
    /\ openai_file \in ResultFiles(HostedRecords)
    /\ local_file \in ResultFiles(LocalRecords)
    /\ openai_results = <<>>
    /\ local_results = <<>>
    /\ comparisons = <<>>
    /\ analysis = NotSet
    /\ outputs = <<>>
    /\ cmp_pc = "start"

\* lines 199-213: load both files; nothing to compare when both are empty
LoadResults ==
    /\ cmp_pc = "start"
    /\ openai_results' = load_results(openai_file)
    /\ local_results' = load_results(local_file)
    /\ cmp_pc' = IF openai_results' = <<>> /\ local_results' = <<>>
                 THEN "done" ELSE "loaded"
    /\ UNCHANGED <<openai_file, local_file, comparisons, analysis, outputs>>
    /\ UNCHANGED <<col_vars, cost_vars>>

\* lines 215-223: build the comparisons; return when there are none
CreateComparisons ==
    /\ cmp_pc = "loaded"
    /\ \E order \in Orders(common_prompts(lookup(openai_results),
                                          lookup(local_results))) :
          LET out == create_side_by_side_comparison(openai_results,
                                                    local_results, order)
          IN  /\ comparisons' = out.ret
              /\ openai_results' = out.openai_results
              /\ local_results' = out.local_results
              /\ cmp_pc' = IF out.ret = <<>> THEN "done" ELSE "compared"
    /\ UNCHANGED <<openai_file, local_file, analysis, outputs>>
    /\ UNCHANGED <<col_vars, cost_vars>>

\* lines 225-227
GenerateAnalysis ==
    /\ cmp_pc = "compared"
    /\ analysis' = generate_performance_analysis(comparisons)
    /\ cmp_pc' = "analysed"
    /\ UNCHANGED <<openai_file, local_file, openai_results, local_results,
                   comparisons, outputs>>
    /\ UNCHANGED <<col_vars, cost_vars>>

\* lines 229-237: json.dump of the comparisons, then of the analysis
SaveOutputs ==
    /\ cmp_pc = "analysed"
    /\ outputs' = outputs \o
          << [name |-> "detailed_comparison.json", content |-> comparisons],
             [name |-> "performance_analysis.json", content |-> analysis] >>
    /\ cmp_pc' = "saved"
    /\ UNCHANGED <<openai_file, local_file, openai_results, local_results,
                   comparisons, analysis>>
    /\ UNCHANGED <<col_vars, cost_vars>>

\* lines 239-275 with --export-csv: the CSV export, then the printed summary
ExportCsv ==
    /\ cmp_pc = "saved"
    /\ outputs' = outputs \o generate_csv_export(comparisons, "comparison_data.csv")
    /\ cmp_pc' = "done"
    /\ UNCHANGED <<openai_file, local_file, openai_results, local_results,
                   comparisons, analysis>>
    /\ UNCHANGED <<col_vars, cost_vars>>

\* lines 239-275 without --export-csv: the printed summary only
PrintSummary ==
    /\ cmp_pc = "saved"
    /\ cmp_pc' = "done"
    /\ UNCHANGED <<openai_file, local_file, openai_results, local_results,
                   comparisons, analysis, outputs>>
    /\ UNCHANGED <<col_vars, cost_vars>>

NextComparator ==
    \/ LoadResults
    \/ CreateComparisons
    \/ GenerateAnalysis
    \/ SaveOutputs
    \/ ExportCsv
    \/ PrintSummary

Init == InitComparator

Next == NextComparator

Spec == Init /\ [][Next]_vars

-----------------------------------------------------------------------------
(* generate_performance_analysis and generate_csv_export called on any    *)
(* list of comparison records                                              *)

\* the comparison records the sample result records give rise to
ComparisonRecords ==
    {comparison(h.prompt_id, h, l) :
        <<h, l>> \in {pair \in HostedRecords \X LocalRecords :
                         pair[1].prompt_id = pair[2].prompt_id}}

InitAnalysis ==
    /\ IdleCollector
    /\ IdleCost
    /\ openai_file = Missing
    /\ local_file = Missing
    /\ openai_results = <<>>
    /\ local_results = <<>>
    /\ comparisons \in SeqsUpTo(ComparisonRecords, MaxLen)
    /\ analysis = NotSet
    /\ outputs = <<>>
    /\ cmp_pc = "call"

CallAnalysis ==
    /\ cmp_pc = "call"
    /\ analysis' = generate_performance_analysis(comparisons)
    /\ cmp_pc' = "returned"
    /\ UNCHANGED <<openai_file, local_file, openai_results, local_results,
                   comparisons, outputs>>
    /\ UNCHANGED <<col_vars, cost_vars>>

CallCsvExport ==
    /\ cmp_pc = "call"
    /\ outputs' = generate_csv_export(comparisons, "comparison_data.csv")
    /\ cmp_pc' = "exported"
    /\ UNCHANGED <<openai_file, local_file, openai_results, local_results,
                   comparisons, analysis>>
    /\ UNCHANGED <<col_vars, cost_vars>>

NextAnalysis == CallAnalysis \/ CallCsvExport

SpecAnalysis == InitAnalysis /\ [][NextAnalysis]_vars

-----------------------------------------------------------------------------
(* main and run_prompt_category of a collector, one action per step *)

\* no comparator runs beside the collector
IdleComparator ==
    /\ openai_file = Missing
    /\ local_file = Missing
    /\ openai_results = <<>>
    /\ local_results = <<>>
    /\ comparisons = <<>>
    /\ analysis = NotSet
    /\ outputs = <<>>
    /\ cmp_pc = "idle"

InitCollector ==
    /\ IdleComparator
    /\ IdleCost
    /\ pipeline \in {"openai", "local"}
    /\ api_key \in (IF pipeline = "openai"
                    THEN {NoKey, Key(""), Key("sk-test")} ELSE {NoKey})
    /\ server_up \in (IF pipeline = "local" THEN BOOLEAN ELSE {TRUE})
    /\ categories \in SeqsUpTo(Range(Categories), MaxCats) \ {<<>>}
    /\ col_pc = "start"
    /\ cat_idx = 0
    /\ prompts = <<>>
    /\ prompt_idx = 0
    /\ results = <<>>
    /\ all_results = <<>>
    /\ sent = <<>>
    /\ api_results = <<>>
    /\ error_log = <<>>
    /\ files_read = <<>>
    /\ result_writes = <<>>
    /\ clock = 0
    /\ exit_status = -1
    /\ exception = ""

\* run_prompts_openai.py 156-166, run_prompts_local.py 171-189: the hosted
\* collector needs a credential, the local one a reachable server
StartRun ==
    /\ col_pc = "start"
    /\ LET refused == IF pipeline = "openai" THEN credential_missing(api_key)
                      ELSE ~server_up
       IN  /\ col_pc' = IF refused THEN "exit" ELSE "loop"
           /\ exit_status' = IF refused THEN 1 ELSE exit_status
           /\ cat_idx' = IF refused THEN cat_idx ELSE 1
    /\ UNCHANGED <<pipeline, api_key, server_up, categories, prompts,
                   prompt_idx, results, all_results, sent, api_results,
                   error_log, files_read, result_writes, clock, exception>>
    /\ UNCHANGED <<cmp_vars, cost_vars>>

\* openai 175-178, local 198-201: a category without a prompt file is skipped
SkipCategory ==
    /\ col_pc = "loop"
    /\ ~loop_done(cat_idx, categories)
    /\ ~exists(PromptFiles[categories[cat_idx]])
    /\ cat_idx' = cat_idx + 1
    /\ UNCHANGED <<pipeline, api_key, server_up, categories, col_pc, prompts,
                   prompt_idx, results, all_results, sent, api_results,
                   error_log, files_read, result_writes, clock, exit_status,
                   exception>>
    /\ UNCHANGED <<cmp_vars, cost_vars>>

\* openai 180-183, local 203-206: load the prompts and enter
\* run_prompt_category; an exception of load_prompts is not caught
LoadCategory ==
    /\ col_pc = "loop"
    /\ ~loop_done(cat_idx, categories)
    /\ exists(PromptFiles[categories[cat_idx]])
    /\ files_read' = Append(files_read, categories[cat_idx])
    /\ LET loaded == load_prompts(PromptFiles[categories[cat_idx]])
       IN  IF Raised(loaded)
           THEN /\ col_pc' = "crashed"
                /\ exception' = loaded.raise
                /\ exit_status' = 1
                /\ UNCHANGED <<prompts, prompt_idx>>
           ELSE /\ col_pc' = "run"
                /\ prompts' = loaded.value
                /\ prompt_idx' = 1
                /\ UNCHANGED <<exception, exit_status>>
    /\ results' = <<>>
    /\ UNCHANGED <<pipeline, api_key, server_up, categories, cat_idx,
                   all_results, sent, api_results, error_log, result_writes,
                   clock>>
    /\ UNCHANGED <<cmp_vars, cost_vars>>

\* openai 97-137, local 108-152: one pass of run_prompt_category's loop
RunPrompt ==
    /\ col_pc = "run"
    /\ prompt_idx <= Len(prompts)
    /\ \E reply \in Replies :
          LET prompt     == prompts[prompt_idx]
              category   == categories[cat_idx]
              api_result == send_prompt(pipeline, ModelName(pipeline), reply)
          IN  /\ sent' = Append(sent, [pos |-> cat_idx, content |-> prompt.content,
                                       reply |-> reply])
              /\ api_results' = Append(api_results, api_result)
              /\ IF api_result.success
                 THEN LET result == success_result(ModelName(pipeline), prompt,
                                                   api_result, category, clock)
                      IN  /\ clock' = clock + 1
                          /\ error_log' = error_log
                          /\ IF Raised(result)
                             THEN /\ col_pc' = "crashed"
                                  /\ exception' = result.raise
                                  /\ exit_status' = 1
                                  /\ UNCHANGED <<results, prompt_idx>>
                             ELSE /\ results' = Append(results, result)
                                  /\ prompt_idx' = prompt_idx + 1
                                  /\ UNCHANGED <<col_pc, exception, exit_status>>
                 ELSE /\ error_log' = Append(error_log,
                            log_error(failure_message(prompt, api_result),
                                      prompt.id, clock))
                      /\ results' = Append(results,
                            failure_result(ModelName(pipeline), prompt,
                                           api_result, category, clock + 1))
                      /\ clock' = clock + 2
                      /\ prompt_idx' = prompt_idx + 1
                      /\ UNCHANGED <<col_pc, exception, exit_status>>
    /\ UNCHANGED <<pipeline, api_key, server_up, categories, cat_idx, prompts,
                   all_results, files_read, result_writes>>
    /\ UNCHANGED <<cmp_vars, cost_vars>>

\* openai 139 and 184, local 154 and 207: run_prompt_category returns and
\* main extends all_results
EndCategory ==
    /\ col_pc = "run"
    /\ prompt_idx > Len(prompts)
    /\ all_results' = all_results \o results
    /\ results' = <<>>
    /\ cat_idx' = cat_idx + 1
    /\ col_pc' = "loop"
    /\ UNCHANGED <<pipeline, api_key, server_up, categories, prompts,
                   prompt_idx, sent, api_results, error_log, files_read,
                   result_writes, clock, exit_status, exception>>
    /\ UNCHANGED <<cmp_vars, cost_vars>>

\* openai 186-205, local 209-228: after the loop, save_results when there
\* is a result
SaveResults ==
    /\ col_pc = "loop"
    /\ loop_done(cat_idx, categories)
    /\ result_writes' =
          IF all_results # <<>>
          THEN Append(result_writes,
                      [name |-> OutputFile(pipeline), content |-> all_results])
          ELSE result_writes
    /\ col_pc' = "done"
    /\ exit_status' = 0
    /\ UNCHANGED <<pipeline, api_key, server_up, categories, cat_idx, prompts,
                   prompt_idx, results, all_results, sent, api_results,
                   error_log, files_read, clock, exception>>
    /\ UNCHANGED <<cmp_vars, cost_vars>>

NextCollector ==
    \/ StartRun
    \/ SkipCategory
    \/ LoadCategory
    \/ RunPrompt
    \/ EndCategory
    \/ SaveResults

SpecCollector == InitCollector /\ [][NextCollector]_vars

-----------------------------------------------------------------------------
(* calculate_tokens_cost called on any model name and token counts *)

\* the largest token count of a call
MaxTokens == 4

\* the model names of the price table, the model the local collector runs,
\* and other names that have no price
ModelNames ==
    {"gpt-4", "gpt-4-turbo", "gpt-4o", "gpt-oss-20b", "gpt-3.5-turbo",
     "GPT-4", "unknown", ""}

\* the calls: with a model name, or without one (the parameter's default)
CostCalls ==
    [input_tokens : 0..MaxTokens, output_tokens : 0..MaxTokens, model : ModelNames]
    \cup [input_tokens : 0..MaxTokens, output_tokens : 0..MaxTokens]

InitCost ==
    /\ IdleComparator
    /\ IdleCollector
    /\ cost_args \in CostCalls
    /\ cost_ret = NotSet

\* the call and its return; model defaults to "gpt-4"
CallCost ==
    /\ cost_ret = NotSet
    /\ cost_ret' = [value |-> calculate_tokens_cost(cost_args.input_tokens,
                                  cost_args.output_tokens,
                                  Get(cost_args, "model", "gpt-4"))]
    /\ UNCHANGED cost_args
    /\ UNCHANGED <<cmp_vars, col_vars>>

NextCost == CallCost

SpecCost == InitCost /\ [][NextCost]_vars

-----------------------------------------------------------------------------
(* Properties of the comparator *)

IdsOf(rs) == {rs[i].prompt_id : i \in DOMAIN rs}

\* the record of `results` a comparison for prompt id `id` is joined from:
\* the last one in sequence order
JoinedRecord(rs, id) ==
    rs[CHOOSE i \in DOMAIN rs :
               /\ rs[i].prompt_id = id
               /\ \A j \in DOMAIN rs : rs[j].prompt_id = id => j <= i]

HasError(r) == "error" \in DOMAIN r /\ r.error = TRUE

Compared == cmp_pc \in {"compared", "analysed", "saved", "done"}

\* C1: the number of comparison records equals the number of prompt ids the
\* two result sequences share, and is at most the length of the shorter one,
\* duplicates of a prompt id in a sequence included.
C1_ComparisonCount ==
    Compared =>
        /\ Len(comparisons) =
              Cardinality(IdsOf(openai_results) \cap IdsOf(local_results))
        /\ Len(comparisons) <= Min(Len(openai_results), Len(local_results))

\* C1 case: a hosted sequence with a repeated prompt id, two ids shared
C1_Witness ==
    /\ cmp_pc = "compared"
    /\ Len(openai_results) > Cardinality(IdsOf(openai_results))
    /\ Len(comparisons) = 2

\* C2: in every comparison record both_successful is true exactly when
\* neither joined record has error == true (no error field: not failed).
C2_BothSuccessful ==
    Compared =>
        \A i \in DOMAIN comparisons :
            LET c == comparisons[i]
                h == JoinedRecord(openai_results, c.prompt_id)
                l == JoinedRecord(local_results, c.prompt_id)
            IN  c.comparison_metrics.both_successful
                    <=> (~HasError(h) /\ ~HasError(l))

\* C2 case: one comparison that failed on one side only, one that succeeded
\* with an explicit error: false on the hosted side
C2_Witness ==
    /\ cmp_pc = "compared"
    /\ \E i, j \in DOMAIN comparisons :
          /\ ~comparisons[i].comparison_metrics.both_successful
          /\ HasError(JoinedRecord(openai_results, comparisons[i].prompt_id))
          /\ ~HasError(JoinedRecord(local_results, comparisons[i].prompt_id))
          /\ comparisons[j].comparison_metrics.both_successful
          /\ "error" \in DOMAIN JoinedRecord(openai_results, comparisons[j].prompt_id)

\* C3: a comparator run on result sets that share no prompt id ends with
\* zero comparisons and with performance_analysis.json holding {"error": ...}.
C3_DisjointReportsError ==
    (cmp_pc = "done"
        /\ IdsOf(load_results(openai_file)) \cap IdsOf(load_results(local_file)) = {})
    => /\ comparisons = <<>>
       /\ \E i \in DOMAIN outputs :
             /\ outputs[i].name = "performance_analysis.json"
             /\ DOMAIN outputs[i].content = {"error"}

\* C4 as stated: the analysis is an error indicator exactly for an empty or
\* all-failed list, and otherwise success_rate is exactly
\* 100 * successful / total, within [0, 100], with 1 <= successful <= total.
C4_ExactRate ==
    cmp_pc = "returned" =>
        LET s == Len(SelectSeq(comparisons, IsSuccessful))
            t == Len(comparisons)
        IN  IF t = 0 \/ s = 0
            THEN DOMAIN analysis = {"error"}
            ELSE /\ "error" \notin DOMAIN analysis
                 /\ analysis.overview.success_rate * t = 1000 * s
                 /\ analysis.overview.success_rate \in 0..1000
                 /\ analysis.overview.successful_comparisons = s
                 /\ analysis.overview.total_comparisons = t
                 /\ s >= 1 /\ s <= t

\* C4 amended: as C4, with success_rate being 100 * successful / total
\* rounded to one decimal place (the nearest tenth of a percent).
C4_RoundedRate ==
    cmp_pc = "returned" =>
        LET s == Len(SelectSeq(comparisons, IsSuccessful))
            t == Len(comparisons)
        IN  IF t = 0 \/ s = 0
            THEN DOMAIN analysis = {"error"}
            ELSE /\ "error" \notin DOMAIN analysis
                 /\ 2 * Abs(analysis.overview.success_rate * t - 1000 * s) <= t
                 /\ analysis.overview.success_rate \in 0..1000
                 /\ analysis.overview.successful_comparisons = s
                 /\ analysis.overview.total_comparisons = t
                 /\ s >= 1 /\ s <= t

\* C4 case: two of three comparisons successful, reported as 66.7
C4_Witness ==
    /\ cmp_pc = "returned"
    /\ Len(comparisons) = 3
    /\ "overview" \in DOMAIN analysis
    /\ analysis.overview.successful_comparisons = 2
    /\ analysis.overview.success_rate = 667

\* C10: the comparator leaves the loaded result sequences and the files as
\* they are, and its comparison and analysis records are those of any other
\* run on the same inputs, whatever order the set of shared ids iterates in.
C10_SameOutput ==
    Compared =>
        \A order \in Orders(IdsOf(openai_results) \cap IdsOf(local_results)) :
            LET again == create_side_by_side_comparison(openai_results,
                                                        local_results, order).ret
            IN  /\ comparisons = again
                /\ analysis # NotSet =>
                      analysis = generate_performance_analysis(again)

C10_InputsKept ==
    /\ openai_file' = openai_file
    /\ local_file' = local_file
    /\ cmp_pc # "start" =>
          /\ openai_results' = openai_results
          /\ local_results' = local_results

C10_PureComparator == [](C10_SameOutput) /\ [][C10_InputsKept]_vars

\* C10 case: a finished run over three shared ids, one hosted record of
\* which lacks the optional fields
C10_Witness ==
    /\ cmp_pc = "done"
    /\ Len(comparisons) = 3
    /\ Len(outputs) = 3
    /\ \E i \in DOMAIN openai_results : "category" \notin DOMAIN openai_results[i]

\* C14: in every comparison record cost_savings is the cost_usd of the
\* hosted record joined for its prompt id, 0 when that record has no
\* cost_usd, and the local side's cost_usd is 0 whatever the local record
\* holds.
C14_CostSavings ==
    Compared =>
        \A i \in DOMAIN comparisons :
            LET c == comparisons[i]
                h == JoinedRecord(openai_results, c.prompt_id)
            IN  /\ c.comparison_metrics.cost_savings =
                      (IF "cost_usd" \in DOMAIN h THEN h.cost_usd ELSE 0)
                /\ c.openai.cost_usd = c.comparison_metrics.cost_savings
                /\ c.local.cost_usd = 0

\* C14 case: a comparison whose hosted record has a cost, and one whose
\* hosted record has no cost_usd while its local record has one
C14_Witness ==
    /\ cmp_pc = "compared"
    /\ \E i, j \in DOMAIN comparisons :
          /\ comparisons[i].comparison_metrics.cost_savings = 49980
          /\ "cost_usd" \notin DOMAIN JoinedRecord(openai_results,
                                                    comparisons[j].prompt_id)
          /\ JoinedRecord(local_results, comparisons[j].prompt_id).cost_usd = 7
          /\ comparisons[j].comparison_metrics.cost_savings = 0

\* no two records of the sequence have the same prompt id
NoDuplicateIds(rs) == Cardinality(IdsOf(rs)) = Len(rs)

\* the sequences that hold the records of `rs` in another order
Reorderings(rs) ==
    {[i \in DOMAIN rs |-> rs[p[i]]] : p \in Orders(DOMAIN rs)}

\* the rows of the CSV file a run has written, if it has written one
CsvFiles == SelectSeq(outputs, LAMBDA f : f.name = "comparison_data.csv")

\* C15: the comparison records are in strictly ascending order of prompt_id
\* (as strings); the same records, in the same order, come out of the two
\* input sequences taken in any other order, when neither holds a prompt id
\* twice; and the CSV export has one row per comparison, in that order.
C15_SortedOutput ==
    Compared =>
        /\ \A i \in 1..(Len(comparisons) - 1) :
              StrLess(comparisons[i].prompt_id, comparisons[i + 1].prompt_id)
        /\ (NoDuplicateIds(openai_results) /\ NoDuplicateIds(local_results)) =>
              \A po \in Reorderings(openai_results),
                 pl \in Reorderings(local_results),
                 order \in Orders(IdsOf(openai_results) \cap IdsOf(local_results)) :
                    create_side_by_side_comparison(po, pl, order).ret = comparisons
        /\ \A k \in DOMAIN CsvFiles :
              /\ Len(CsvFiles[k].content) = Len(comparisons)
              /\ \A i \in DOMAIN comparisons :
                    CsvFiles[k].content[i].prompt_id = comparisons[i].prompt_id

\* C15 case: a run that wrote the CSV file for three comparisons whose
\* hosted records came in the order p2, p10, p1 and whose local records in
\* the order p10, p1, p2; "p10" is before "p2" in the output
C15_Witness ==
    /\ cmp_pc = "done"
    /\ Len(CsvFiles) = 1
    /\ Len(openai_results) = 3
    /\ openai_results[1].prompt_id = "p2"
    /\ openai_results[2].prompt_id = "p10"
    /\ Len(local_results) = 3
    /\ local_results[1].prompt_id = "p10"
    /\ local_results[2].prompt_id = "p1"
    /\ Len(comparisons) = 3
    /\ comparisons[2].prompt_id = "p10"
    /\ CsvFiles[1].content[3].prompt_id = "p2"

\* C16: for a prompt id that a result sequence holds in several records, the
\* comparison record is built from the last of them on each side, and there
\* is exactly one comparison record for that id.
C16_LastWriteWins ==
    Compared =>
        \A id \in IdsOf(openai_results) \cap IdsOf(local_results) :
            /\ Cardinality({i \in DOMAIN comparisons :
                                comparisons[i].prompt_id = id}) = 1
            /\ \A i \in DOMAIN comparisons :
                  comparisons[i].prompt_id = id =>
                      LET c == comparisons[i]
                          h == JoinedRecord(openai_results, id)
                          l == JoinedRecord(local_results, id)
                      IN  /\ c.openai.response = h.response
                          /\ c.openai.latency_seconds = h.latency_seconds
                          /\ c.openai.response_length = h.response_length
                          /\ c.openai.has_error = HasError(h)
                          /\ c.local.response = l.response
                          /\ c.local.latency_seconds = l.latency_seconds
                          /\ c.local.response_length = l.response_length
                          /\ c.local.has_error = HasError(l)

\* C16 case: both sequences hold two different records of p1, the failed
\* one first on the hosted side and last on the local side
C16_Witness ==
    /\ cmp_pc = "compared"
    /\ Len(openai_results) = 2
    /\ openai_results[1].prompt_id = "p1" /\ HasError(openai_results[1])
    /\ openai_results[2].prompt_id = "p1" /\ ~HasError(openai_results[2])
    /\ Len(local_results) = 2
    /\ local_results[1].prompt_id = "p1" /\ ~HasError(local_results[1])
    /\ local_results[2].prompt_id = "p1" /\ HasError(local_results[2])
    /\ Len(comparisons) = 1
    /\ ~comparisons[1].openai.has_error
    /\ comparisons[1].local.has_error

\* the sum of b[x] over the x of S
RECURSIVE SumOver(_, _)
SumOver(b, S) ==
    IF S = {} THEN 0
    ELSE LET x == CHOOSE y \in S : TRUE IN b[x] + SumOver(b, S \ {x})

\* the fraction `mean` is the mean of the fractions of the sequence `ratios`
IsMeanOf(mean, ratios) ==
    LET total == SumFracs(ratios)
    IN  mean[1] * total[2] * Len(ratios) = total[1] * mean[2]

-----------------------------------------------------------------------------
(* Properties of the collectors *)

\* the result records of the run so far, in order
AllRecords == all_results \o results

\* the invocations made for the category main's loop is at
SentHere == SelectSeq(sent, LAMBDA x : x.pos = cat_idx)

\* the requests a run over `cats` makes when it runs to its end
RECURSIVE ExpectedRequests(_)
ExpectedRequests(cats) ==
    IF cats = <<>> THEN 0
    ELSE (IF PromptFiles[Head(cats)].file = "json"
          THEN Len(PromptFiles[Head(cats)].data) ELSE 0)
         + ExpectedRequests(Tail(cats))

\* a reply that is a failure: no HTTP response, a status other than 200, a
\* body that is no JSON, or JSON without the expected fields
FailureReply(reply) ==
    \/ reply.kind = "exception"
    \/ reply.status # 200
    \/ "json" \notin DOMAIN reply
    \/ "choices" \notin DOMAIN reply.json
    \/ reply.json.choices = <<>>

\* C5: in a category run the client is invoked once per prompt, in listed
\* order and without retry, and every invoked prompt has its result record,
\* in the same order and with the same prompt id, whatever the replies
\* (null response content included): no reply makes the run stop short.
C5_OneRecordPerPrompt ==
    col_pc \in {"run", "crashed"} =>
        /\ Len(results) = Len(SentHere)
        /\ col_pc = "run" => Len(SentHere) = prompt_idx - 1
        /\ \A k \in DOMAIN SentHere :
              /\ SentHere[k].content = prompts[k].content
              /\ results[k].prompt_id = prompts[k].id

\* C6: the lines appended to the error log are, in order, those of the
\* result records with error == true; a record has error == true exactly
\* when its request failed, and then its response begins with "ERROR: ";
\* the record of a successful request has no error field.
C6_LogMatchesRecords ==
    LET failed == SelectSeq(AllRecords, HasError)
    IN  /\ Len(error_log) = Len(failed)
        /\ \A k \in DOMAIN failed :
              /\ "prompt" \in DOMAIN error_log[k]
              /\ error_log[k].prompt = failed[k].prompt_id
        /\ \A k \in DOMAIN AllRecords :
              /\ HasError(AllRecords[k]) <=> ~api_results[k].success
              /\ HasError(AllRecords[k]) =>
                    SubSeq(AllRecords[k].response, 1, 7) = "ERROR: "
              /\ api_results[k].success => "error" \notin DOMAIN AllRecords[k]

\* C6 case: a finished run with a failed and a successful request
C6_Witness ==
    /\ col_pc = "done"
    /\ Len(error_log) = 1
    /\ Len(all_results) = 2
    /\ HasError(all_results[1])
    /\ ~HasError(all_results[2])

\* C7: the hosted collector without a credential (none given, or an empty
\* one) exits with status 1, and sends no request, reads no prompt file and
\* writes no result file.
C7_NoCredentialExits ==
    (pipeline = "openai" /\ (~api_key.given \/ api_key.value = "")) =>
        /\ col_pc \in {"start", "exit"}
        /\ col_pc = "exit" => exit_status = 1
        /\ sent = <<>>
        /\ files_read = <<>>
        /\ result_writes = <<>>

\* C7 case: the hosted collector has exited for want of a credential
C7_Witness ==
    /\ pipeline = "openai"
    /\ ~api_key.given
    /\ col_pc = "exit"
    /\ exit_status = 1

\* C8: the result file is written at most once, only when every request of
\* every selected category has completed, and holds all the results; a run
\* that stops earlier writes nothing.
C8_SingleFinalWrite ==
    /\ Len(result_writes) <= 1
    /\ result_writes # <<>> =>
          /\ col_pc = "done"
          /\ Len(sent) = ExpectedRequests(categories)
          /\ Len(api_results) = Len(sent)
          /\ result_writes[1].content = all_results
          /\ Len(all_results) = Len(sent)
    /\ col_pc \in {"crashed", "exit"} => result_writes = <<>>

\* C8 case: a finished run over two categories and three requests
C8_Witness ==
    /\ col_pc = "done"
    /\ Len(categories) = 2
    /\ Len(sent) = 3
    /\ Len(result_writes) = 1

\* C9: send_prompt returns, for every failure reply, an outcome with
\* success == false, an error description, the latency and zero tokens and
\* cost; an outcome with success == true carries a response text.
C9_SendPromptOutcome ==
    \A k \in DOMAIN api_results :
        LET r == api_results[k]
        IN  /\ FailureReply(sent[k].reply) => ~r.success
            /\ ~r.success =>
                  /\ "error" \in DOMAIN r
                  /\ r.latency = sent[k].reply.elapsed
                  /\ r.input_tokens = 0 /\ r.output_tokens = 0 /\ r.cost = 0
            /\ r.success => "response" \in DOMAIN r /\ r.response.type = "string"

\* the positions of args.categories whose prompt file exists and holds
\* text that is no JSON
MalformedPositions ==
    {k \in DOMAIN categories : PromptFiles[categories[k]] = InvalidJson}

\* C11: in a collector run over several categories, one of which has a
\* prompt file that exists but is malformed, the loader's failure does not
\* end the run: the run goes on to its end, and there the results of all the
\* other selected categories are held and written to the result file.
C11_MalformedCategorySkipped ==
    (Len(categories) >= 2 /\ MalformedPositions # {}) =>
        /\ exception # "json.decoder.JSONDecodeError"
        /\ col_pc = "done" =>
              /\ Len(all_results) = ExpectedRequests(categories)
              /\ all_results # <<>> =>
                    /\ Len(result_writes) = 1
                    /\ result_writes[1].content = all_results

\* C12: every result record of a collector, of a successful or of a failed
\* request, has total_tokens = input_tokens + output_tokens and
\* response_length = the length of its response; the record of a failed
\* request holds the response "ERROR: <message>" and token counts of 0.
C12_RecordArithmetic ==
    \A k \in DOMAIN AllRecords :
        LET r == AllRecords[k]
        IN  /\ r.total_tokens = r.input_tokens + r.output_tokens
            /\ r.response_length = Len(r.response)
            /\ ~api_results[k].success =>
                  /\ r.response = "ERROR: " \o api_results[k].error
                  /\ r.input_tokens = 0
                  /\ r.output_tokens = 0
                  /\ r.total_tokens = 0

\* C12 case: a finished run that holds the record of a failed request and
\* the record of a successful one with 10 input and 20 output tokens
C12_Witness ==
    /\ col_pc = "done"
    /\ \E i, j \in DOMAIN all_results :
          /\ HasError(all_results[i])
          /\ all_results[i].response_length > 7
          /\ ~HasError(all_results[j])
          /\ all_results[j].input_tokens = 10
          /\ all_results[j].total_tokens = 30
          /\ all_results[j].response_length = 11

-----------------------------------------------------------------------------
(* Properties of calculate_tokens_cost *)

\* C13: for a model name that is not in the price table, and any token
\* counts, calculate_tokens_cost returns a cost (it does not raise), the
\* same cost as for "gpt-4" with these token counts, and not zero when a
\* token count is positive.
C13_UnknownModelFallback ==
    (cost_ret # NotSet /\ "model" \in DOMAIN cost_args
        /\ cost_args.model \notin {"gpt-4", "gpt-4-turbo", "gpt-4o"}) =>
        /\ DOMAIN cost_ret = {"value"}
        /\ cost_ret.value = calculate_tokens_cost(cost_args.input_tokens,
                                                  cost_args.output_tokens, "gpt-4")
        /\ cost_ret.value = 30 * cost_args.input_tokens
                            + 60 * cost_args.output_tokens
        /\ (cost_args.input_tokens > 0 \/ cost_args.output_tokens > 0) =>
              cost_ret.value > 0

\* C13 case: a call for a model without a price and with positive token
\* counts has returned
C13_Witness ==
    /\ cost_ret # NotSet
    /\ "model" \in DOMAIN cost_args
    /\ cost_args.model = "gpt-oss-20b"
    /\ cost_args.input_tokens = 1
    /\ cost_args.output_tokens = 2
    /\ cost_ret.value = 150

====
